---- MODULE Spec2Model ----
(***************************************************************************)
(* Model of macrophages_biotin_positive-vs-negative_GSVA.py: the cached    *)
(* CSV load (load_data), the per-row classifier (get_category), the plot   *)
(* builder (update_plot) working on the module-level table df, and the     *)
(* module-level script body that collects the sidebar inputs, calls        *)
(* update_plot once and displays the results; update_plot may then be      *)
(* called again on the same table.                                         *)
(*                                                                         *)
(* Text is a sequence of one-character strings.  A CSV cell is a record    *)
(* [kind, v]: kind "num" is a parsed number, "nan" an empty cell (pandas   *)
(* NaN), "str" a cell pandas keeps as text.  Scores are counted in tenths. *)
(* A p-value v is the double 0.05 + v * 2^-57, i.e. v counts the doubles   *)
(* between the p-value and 0.05; a -log10 value v is the double            *)
(* fl(-log10(0.05)) + v * 2^-52.                                           *)
(***************************************************************************)
EXTENDS Integers, Sequences, FiniteSets, TLC

VARIABLES file, pc, df, errorShown, call, fig, keyword_df, shown

vars == <<file, pc, df, errorShown, call, fig, keyword_df, shown>>

(***************************************************************************)
(* Bounds.                                                                 *)
(***************************************************************************)
MaxRows == 2
MaxKw == 2

(***************************************************************************)
(* Text helpers: str.upper, str.strip, str.replace, the `in` operator.     *)
(***************************************************************************)
UpperChar(c) == CASE c = "a" -> "A" [] c = "b" -> "B" [] OTHER -> c

upper(s) == [i \in 1..Len(s) |-> UpperChar(s[i])]

replace(s, old, new) == [i \in 1..Len(s) |-> IF s[i] = old THEN new ELSE s[i]]

RECURSIVE lstrip(_)
lstrip(s) == IF Len(s) > 0 /\ Head(s) = " " THEN lstrip(Tail(s)) ELSE s

RECURSIVE rstrip(_)
rstrip(s) == IF Len(s) > 0 /\ s[Len(s)] = " " THEN rstrip(SubSeq(s, 1, Len(s) - 1)) ELSE s

strip(s) == rstrip(lstrip(s))

contains(s, sub) == \E i \in 1..(Len(s) - Len(sub) + 1) : SubSeq(s, i, i + Len(sub) - 1) = sub

(***************************************************************************)
(* Cells.                                                                  *)
(***************************************************************************)
Num(v) == [kind |-> "num", v |-> v]
NaN == [kind |-> "nan", v |-> 0]
Str == [kind |-> "str", v |-> 0]

NoCategory == "<no column>"

(***************************************************************************)
(* pd.read_csv infers one dtype per column: a column with a cell that is   *)
(* not a number is kept as text (object dtype), so its numeric cells are   *)
(* strings too; empty cells are NaN in either case.                        *)
(***************************************************************************)
read_column(cells) ==
    IF \E i \in 1..Len(cells) : cells[i].kind = "str"
    THEN [i \in 1..Len(cells) |-> IF cells[i].kind = "nan" THEN NaN ELSE Str]
    ELSE cells

(***************************************************************************)
(* -np.log10 of a double near 0.05, rounded to the nearest double.  One    *)
(* step of the p-value (2^-57) moves the exact logarithm by 0.27143 steps  *)
(* of the result (2^-52), and the exact -log10 of the double 0.05 lies     *)
(* 0.37120 steps below the double it rounds to.                            *)
(***************************************************************************)
NegLog10(v) == (50000 - 37120 - 27143 * v) \div 100000

neg_log10(cell) == IF cell.kind = "num" THEN Num(NegLog10(cell.v)) ELSE NaN

ScoreThreshold == 5

(***************************************************************************)
(* load_data.                                                              *)
(***************************************************************************)
read_table(f) ==
    LET n == Len(f.rows)
        scores == read_column([i \in 1..n |-> f.rows[i].score])
        ps == read_column([i \in 1..n |-> f.rows[i].p])
    IN IF \E i \in 1..n : ps[i].kind = "str"
       THEN [status |-> "raised", error |-> FALSE, df |-> <<>>]
       ELSE [status |-> "table", error |-> FALSE,
             df |-> [i \in 1..n |->
                       [name |-> strip(f.rows[i].name),
                        score |-> scores[i],
                        p |-> ps[i],
                        neglog |-> neg_log10(ps[i]),
                        category |-> NoCategory]]]

load_data_empty_frame(f) ==
    IF ~f.exists
    THEN [status |-> "table", error |-> TRUE, df |-> <<>>]
    ELSE read_table(f)

load_data(f) ==
    IF ~f.exists
    THEN [status |-> "none", error |-> TRUE, df |-> <<>>]
    ELSE read_table(f)

(***************************************************************************)
(* get_category.                                                           *)
(***************************************************************************)
process_keywords_normalized(keywords) ==
    LET kept == SelectSeq(keywords, LAMBDA kw : strip(kw) # <<>>)
    IN [i \in 1..Len(kept) |-> strip(upper(replace(kept[i], "_", " ")))]

process_keywords(keywords) ==
    LET kept == SelectSeq(keywords, LAMBDA kw : strip(kw) # <<>>)
    IN [i \in 1..Len(kept) |-> strip(upper(kept[i]))]

significance(row) ==
    IF row.score.kind = "str" THEN "TypeError"
    ELSE IF row.score.kind = "num" /\ row.score.v > ScoreThreshold
            /\ row.neglog.kind = "num" /\ row.neglog.v > NegLog10(0)
    THEN "upregulated"
    ELSE IF row.score.kind = "num" /\ row.score.v < -ScoreThreshold
            /\ row.neglog.kind = "num" /\ row.neglog.v > NegLog10(0)
    THEN "downregulated"
    ELSE "non-significant"

keyword_condition(row, keywords, logic) ==
    LET pathway_name == upper(replace(row.name, "_", " "))
        kws == process_keywords(keywords)
    IN \/ logic = "AND" /\ \A i \in 1..Len(kws) : contains(pathway_name, kws[i])
       \/ logic = "OR" /\ \E i \in 1..Len(kws) : contains(pathway_name, kws[i])

get_category_significance_first(row, keywords, logic) ==
    IF significance(row) \in {"upregulated", "downregulated"} THEN significance(row)
    ELSE IF keyword_condition(row, keywords, logic) THEN "keyword_match"
    ELSE significance(row)

get_category_keeps_match(row, keywords, logic) ==
    IF row.category = "keyword_match" \/ keyword_condition(row, keywords, logic)
    THEN "keyword_match"
    ELSE significance(row)

get_category(row, keywords, logic) ==
    IF keyword_condition(row, keywords, logic) THEN "keyword_match"
    ELSE significance(row)

(***************************************************************************)
(* DataFrame.sort_values('P.Value') on the row positions of a frame: NaN   *)
(* last; numpy sorts the short arrays of the model by insertion, which     *)
(* keeps equal keys in table order.                                        *)
(***************************************************************************)
p_less(d, x, y) ==
    /\ d[x].p.kind = "num"
    /\ \/ d[y].p.kind # "num"
       \/ d[x].p.v < d[y].p.v

RECURSIVE insert_sorted(_, _, _)
insert_sorted(d, s, x) ==
    IF s = <<>> THEN <<x>>
    ELSE IF p_less(d, x, Head(s)) THEN <<x>> \o s
    ELSE <<Head(s)>> \o insert_sorted(d, Tail(s), x)

sort_values_unsorted(d, s) == s

RECURSIVE sort_values(_, _)
sort_values(d, s) ==
    IF s = <<>> THEN <<>>
    ELSE insert_sorted(d, sort_values(d, SubSeq(s, 1, Len(s) - 1)), s[Len(s)])

(***************************************************************************)
(* update_plot: the new table, the figure (a sequence of traces, each with *)
(* the positions of the rows it draws and its permanent label, 0 for none) *)
(* and the returned match table (row positions in returned order).         *)
(* DataFrame.apply(axis=1) on a frame without rows returns a frame, not a  *)
(* column, and assigning it to df['category'] raises ValueError.           *)
(***************************************************************************)
select_category(d, c) ==
    SelectSeq([i \in 1..Len(d) |-> i], LAMBDA i : d[i].category = c)

non_significant_df(d) == select_category(d, "non-significant")

upregulated_df(d) == select_category(d, "upregulated")

downregulated_df_as_upregulated(d) == select_category(d, "upregulated")

downregulated_df(d) == select_category(d, "downregulated")

Trace(name, points, label) == [name |-> name, points |-> points, label |-> label]

keyword_traces(kdf, interactive) ==
    IF interactive
    THEN << Trace("Keyword Matched Pathways", kdf, 0) >>
    ELSE [k \in 1..Len(kdf) |-> Trace("Keyword Matched Pathways", <<kdf[k]>>, k)]

Raised(d) == [status |-> "raised", df |-> d, fig |-> <<>>, keyword_df |-> <<>>]

update_plot(d, keywords, logic, interactive) ==
    LET cats == [i \in 1..Len(d) |-> get_category(d[i], keywords, logic)]
    IN IF Len(d) = 0 THEN Raised(d)
       ELSE IF \E i \in 1..Len(d) : cats[i] = "TypeError" THEN Raised(d)
       ELSE LET d2 == [i \in 1..Len(d) |-> [d[i] EXCEPT !.category = cats[i]]]
                kdf == sort_values(d2, select_category(d2, "keyword_match"))
            IN [status |-> "returned", df |-> d2,
                fig |-> << Trace("Non-Significant", non_significant_df(d2), 0),
                           Trace("Upregulated", upregulated_df(d2), 0),
                           Trace("Downregulated", downregulated_df(d2), 0) >>
                        \o keyword_traces(kdf, interactive),
                keyword_df |-> kdf]

(***************************************************************************)
(* Inputs.                                                                 *)
(***************************************************************************)
Names == { <<"A", "_", "b">>, <<"b", " ">> }

Keywords == { <<"a">>, <<" ", "B">>, <<"A", "_", "b">>, <<" ">> }

LaterKeywordLists == { <<>>, << <<" ">> >>, << <<"a">> >>, << <<" ">>, <<"a">> >> }

Logics == {"AND", "OR"}

ScoreCells == {Num(8), Num(5), Num(-5), Num(-8), NaN, Str}

PCells == {Num(-4), Num(-1), Num(0), Num(1), NaN, Str}

AnyRows == [name : Names, score : ScoreCells, p : PCells]

TableRows ==
    [name : Names, score : {Num(8)}, p : {Num(-4), Num(1)}]
    \cup {[name |-> <<"A", "_", "b">>, score |-> Str, p |-> Num(-4)]}

SeqsUpTo(S, lo, hi) == UNION { [1..n -> S] : n \in lo..hi }

Files ==
    {[exists |-> FALSE, rows |-> <<>>]}
    \cup {[exists |-> TRUE, rows |-> r] : r \in SeqsUpTo(AnyRows, 0, 1)}
    \cup {[exists |-> TRUE, rows |-> r] : r \in SeqsUpTo(TableRows, 2, MaxRows)}

NoCall == [by |-> "none", keywords |-> <<>>, logic |-> "AND", interactive |-> TRUE,
           status |-> "none"]

NothingShown == [chart |-> FALSE, table |-> FALSE, export |-> FALSE]

Init ==
    /\ file \in Files
    /\ pc = "start"
    /\ df = <<>>
    /\ errorShown = FALSE
    /\ call = NoCall
    /\ fig = <<>>
    /\ keyword_df = <<>>
    /\ shown = NothingShown

(***************************************************************************)
(* df = load_data(), and the guard `if df is not None` of the script body. *)
(***************************************************************************)
Load ==
    /\ pc = "start"
    /\ \E r \in {load_data(file)} :
          /\ df' = r.df
          /\ errorShown' = r.error
          /\ pc' = CASE r.status = "table" -> "loaded"
                     [] r.status = "none" -> "no_data"
                     [] OTHER -> "load_failed"
    /\ UNCHANGED <<file, call, fig, keyword_df, shown>>

(***************************************************************************)
(* One call of update_plot on the module-level df.                         *)
(***************************************************************************)
Apply(r, by, keywords, logic, interactive) ==
    /\ df' = r.df
    /\ call' = [by |-> by, keywords |-> keywords, logic |-> logic,
                interactive |-> interactive, status |-> r.status]
    /\ fig' = IF r.status = "returned" THEN r.fig ELSE fig
    /\ keyword_df' = IF r.status = "returned" THEN r.keyword_df ELSE keyword_df

(***************************************************************************)
(* The script body: sidebar inputs, the filter of blank keywords, the      *)
(* call, the chart, the table of matches and the download controls.  An    *)
(* exception of update_plot ends the script.                               *)
(***************************************************************************)
Main ==
    /\ pc = "loaded"
    /\ \E inputs \in SeqsUpTo(Keywords, 1, MaxKw), logic \in Logics, interactive \in BOOLEAN :
         \E keywords \in {SelectSeq(inputs, LAMBDA kw : strip(kw) # <<>>)} :
           \E r \in {update_plot(df, keywords, logic, interactive)} :
             /\ Apply(r, "script", keywords, logic, interactive)
             /\ IF r.status = "returned"
                THEN /\ pc' = "ran"
                     /\ shown' = [chart |-> TRUE,
                                  table |-> ~interactive /\ r.keyword_df # <<>>,
                                  export |-> TRUE]
                ELSE /\ pc' = "crashed"
                     /\ shown' = shown
    /\ UNCHANGED <<file, errorShown>>

(***************************************************************************)
(* A later call of update_plot on the same table, any number of times.     *)
(***************************************************************************)
UpdatePlot ==
    /\ pc = "ran"
    /\ \E keywords \in LaterKeywordLists, logic \in Logics, interactive \in BOOLEAN :
         \E r \in {update_plot(df, keywords, logic, interactive)} :
           Apply(r, "later", keywords, logic, interactive)
    /\ UNCHANGED <<file, pc, errorShown, shown>>

Next == Load \/ Main \/ UpdatePlot

Spec == Init /\ [][Next]_vars

TypeOK ==
    /\ file \in Files
    /\ pc \in {"start", "loaded", "no_data", "load_failed", "ran", "crashed"}
    /\ errorShown \in BOOLEAN
    /\ call.by \in {"none", "script", "later"}
    /\ call.status \in {"none", "returned", "raised"}
    /\ shown \in [chart : BOOLEAN, table : BOOLEAN, export : BOOLEAN]

(***************************************************************************)
(* Vocabulary of the properties, stated on text and numbers directly.      *)
(***************************************************************************)
Returned == call.by # "none" /\ call.status = "returned"

Rows == 1..Len(df)

Categories == {"keyword_match", "upregulated", "downregulated", "non-significant"}

NonBlankAt(s) == {i \in 1..Len(s) : s[i] # " "}

First(S) == CHOOSE i \in S : \A j \in S : i <= j

Last(S) == CHOOSE i \in S : \A j \in S : j <= i

Trimmed(s) == IF NonBlankAt(s) = {} THEN <<>> ELSE SubSeq(s, First(NonBlankAt(s)), Last(NonBlankAt(s)))

KeywordText(kw) == Trimmed([i \in 1..Len(kw) |-> UpperChar(kw[i])])

NormalizedName(name) ==
    [i \in 1..Len(name) |-> IF name[i] = "_" THEN " " ELSE UpperChar(name[i])]

Occurs(sub, s) == \E i \in 0..(Len(s) - Len(sub)) : \A j \in 1..Len(sub) : s[i + j] = sub[j]

NonBlankKeywords == {k \in 1..Len(call.keywords) : NonBlankAt(call.keywords[k]) # {}}

Underscored == {k \in NonBlankKeywords : \E j \in 1..Len(call.keywords[k]) : call.keywords[k][j] = "_"}

KeywordOccurs(k, row) == Occurs(KeywordText(call.keywords[k]), NormalizedName(row.name))

KeywordCondition(row) ==
    IF call.logic = "AND"
    THEN \A k \in NonBlankKeywords : KeywordOccurs(k, row)
    ELSE \E k \in NonBlankKeywords : KeywordOccurs(k, row)

\* p_value < 0.05: the p-value is a double below the double 0.05.
PBelowThreshold(row) == row.p.kind = "num" /\ row.p.v < 0

SignificanceRule(row) ==
    IF row.score.kind = "num" /\ row.score.v > ScoreThreshold /\ PBelowThreshold(row)
    THEN "upregulated"
    ELSE IF row.score.kind = "num" /\ row.score.v < -ScoreThreshold /\ PBelowThreshold(row)
    THEN "downregulated"
    ELSE "non-significant"

WellFormed(f) ==
    \A i \in 1..Len(f.rows) : f.rows[i].score.kind = "num" /\ f.rows[i].p.kind = "num"

\* The places of the figure that draw row i: <<trace, position in the trace>>.
DrawnAt(i) ==
    {tp \in UNION {{<<t, j>> : j \in 1..Len(fig[t].points)} : t \in 1..Len(fig)} :
        fig[tp[1]].points[tp[2]] = i}

(***************************************************************************)
(* C1: with an empty keyword list, or one of blank entries only, no row is *)
(* classified keyword_match, for AND and for OR.                           *)
(***************************************************************************)
C1_NoKeywordsNoMatch ==
    (Returned /\ NonBlankKeywords = {}) =>
        \A i \in Rows : df[i].category # "keyword_match"

(***************************************************************************)
(* C2: with at least one non-blank keyword a row is keyword_match iff      *)
(* every (AND) / at least one (OR) upper-cased, trimmed keyword occurs in  *)
(* the row's normalized name, whatever its score and p-value.              *)
(***************************************************************************)
C2_KeywordMatchIff ==
    (Returned /\ NonBlankKeywords # {}) =>
        \A i \in Rows : (df[i].category = "keyword_match") <=> KeywordCondition(df[i])

C2_Witness ==
    /\ Returned
    /\ call.logic = "AND"
    /\ Cardinality(NonBlankKeywords) = 2
    /\ \E i \in Rows :
         /\ df[i].category = "keyword_match"
         /\ SignificanceRule(df[i]) = "upregulated"

(***************************************************************************)
(* C3: a row that is not keyword-matched is upregulated iff score > 0.5    *)
(* and p_value < 0.05, downregulated iff score < -0.5 and p_value < 0.05,  *)
(* and non-significant otherwise.                                          *)
(***************************************************************************)
C3_StrictThresholds ==
    Returned =>
        \A i \in Rows :
            df[i].category # "keyword_match" => df[i].category = SignificanceRule(df[i])

(***************************************************************************)
(* C4: after a call of update_plot every row carries one of the four       *)
(* categories and is drawn as exactly one point of the figure, in the      *)
(* group of its category.                                                  *)
(***************************************************************************)
C4_OneCategoryOnePoint ==
    Returned =>
        /\ \A i \in Rows : df[i].category \in Categories
        /\ \A i \in Rows : Cardinality(DrawnAt(i)) = 1
        /\ \A t \in 1..Len(fig) : \A j \in 1..Len(fig[t].points) :
             /\ fig[t].points[j] \in Rows
             /\ df[fig[t].points[j]].category =
                  CASE t = 1 -> "non-significant"
                    [] t = 2 -> "upregulated"
                    [] t = 3 -> "downregulated"
                    [] OTHER -> "keyword_match"

C4_Witness ==
    /\ Returned
    /\ Len(df) >= 2
    /\ \E i, j \in Rows : df[i].category = "keyword_match" /\ df[j].category = "upregulated"

(***************************************************************************)
(* C5: the returned match table holds exactly the keyword_match rows, once *)
(* each, with non-decreasing p-values; in non-interactive mode the point   *)
(* with permanent label k is the row at position k of that table.          *)
(***************************************************************************)
C5_SortedMatchTable ==
    Returned =>
        /\ {keyword_df[k] : k \in 1..Len(keyword_df)} =
             {i \in Rows : df[i].category = "keyword_match"}
        /\ \A k, m \in 1..Len(keyword_df) : keyword_df[k] = keyword_df[m] => k = m
        /\ \A k \in 1..(Len(keyword_df) - 1) :
             (df[keyword_df[k]].p.kind = "num" /\ df[keyword_df[k + 1]].p.kind = "num")
                => df[keyword_df[k]].p.v <= df[keyword_df[k + 1]].p.v
        /\ ~call.interactive =>
             /\ Len(fig) = 3 + Len(keyword_df)
             /\ \A k \in 1..Len(keyword_df) :
                  fig[3 + k].label = k /\ fig[3 + k].points = <<keyword_df[k]>>

C5_Witness ==
    /\ Returned
    /\ ~call.interactive
    /\ keyword_df = <<2, 1>>
    /\ df[2].p.v < df[1].p.v

(***************************************************************************)
(* C6: the outcome of the most recent update_plot call (categories, match  *)
(* table, figure) is the outcome of that call made first on the freshly    *)
(* loaded table, whatever calls came before.                               *)
(***************************************************************************)
C6_LastCallOnly ==
    call.by # "none" =>
        \E fresh \in {update_plot(load_data(file).df, call.keywords, call.logic,
                                  call.interactive)} :
            /\ call.status = fresh.status
            /\ Returned => /\ df = fresh.df
                           /\ keyword_df = fresh.keyword_df
                           /\ fig = fresh.fig

C6_Witness ==
    /\ Returned
    /\ call.by = "later"
    /\ shown.table
    /\ keyword_df = <<>>

(***************************************************************************)
(* C7: a file with a row whose score or p-value is missing or not a number *)
(* is never loaded: the load fails and no classification is attempted.     *)
(***************************************************************************)
C7_MalformedRowFailsLoad ==
    (file.exists /\ ~WellFormed(file)) =>
        /\ pc \in {"start", "load_failed"}
        /\ call.by = "none"

(***************************************************************************)
(* C8: when the input file is absent the load reports an error and yields  *)
(* no table, update_plot is never called, and nothing is rendered, shown   *)
(* or offered for export.                                                  *)
(***************************************************************************)
C8_MissingFileStops ==
    (~file.exists /\ pc # "start") =>
        /\ pc = "no_data"
        /\ errorShown
        /\ df = <<>>
        /\ call.by = "none"
        /\ fig = <<>>
        /\ keyword_df = <<>>
        /\ shown = NothingShown

C8_Witness == ~file.exists /\ pc = "no_data" /\ errorShown

(***************************************************************************)
(* C9: on every loaded well-formed table, the empty one included,          *)
(* update_plot returns, with the three base traces, then one keyword trace *)
(* (interactive) or one trace per match labelled 1..n (non-interactive).   *)
(***************************************************************************)
C9_UpdatePlotTotal ==
    (call.by # "none" /\ WellFormed(file)) =>
        /\ call.status = "returned"
        /\ Len(fig) = 3 + (IF call.interactive THEN 1 ELSE Len(keyword_df))
        /\ fig[1].name = "Non-Significant"
        /\ fig[2].name = "Upregulated"
        /\ fig[3].name = "Downregulated"
        /\ \A k \in 4..Len(fig) :
             fig[k].label = (IF call.interactive THEN 0 ELSE k - 3)

(***************************************************************************)
(* C10: a keyword that contains an underscore matches no row: under AND no *)
(* row is keyword_match, under OR a keyword_match row owes its match to a  *)
(* keyword without underscore.                                             *)
(***************************************************************************)
C10_UnderscoreKeywordNeverMatches ==
    (Returned /\ Underscored # {}) =>
        \A i \in Rows :
            IF call.logic = "AND"
            THEN df[i].category # "keyword_match"
            ELSE df[i].category = "keyword_match" =>
                    \E k \in NonBlankKeywords \ Underscored : KeywordOccurs(k, df[i])

C10_Witness ==
    /\ Returned
    /\ \E k \in Underscored, i \in Rows :
         /\ call.keywords[k] = df[i].name
         /\ df[i].category # "keyword_match"

====
